---- MODULE Spec2Model ----
(***************************************************************************)
(* Model of play.py (tempo-player): start-up (source acquisition, load),   *)
(* the interactive loop (position refresh, key dispatch, loop check,       *)
(* redraw) and the pygame music mixer it drives.                           *)
(*                                                                         *)
(* Times are integers in milliseconds: play.py keeps seconds as floats     *)
(* obtained from get_pos()/1000, so every time value of the program is a   *)
(* whole number of milliseconds here.  Volumes passed to set_volume are    *)
(* integers in units of 1/1280 (so that v/128 + 10/100 is exact); the      *)
(* mixer's own volume is its integer 0..128.                               *)
(***************************************************************************)
EXTENDS Integers, Sequences, FiniteSets, TLC

\* ---------------------------------------------------------------- constants
SEEK_DISTANCE_SECONDS == 5
VOLUME_INCREMENT == 10
PROGRESS_BAR_WIDTH == 60
MS == 1000
MIX_MAX_VOLUME == 128
VOLUME_UNIT == 10 * MIX_MAX_VOLUME

\* ---------------------------------------------------------------- bounds
QuantumSeconds == 5       \* granularity (s) of the mixer clock's advance
Quantum == QuantumSeconds * MS
MaxOvershoot == 20        \* ms the mixer clock may read past the track end
MaxRaces == 1             \* ends of track falling between get_busy and get_pos
Durations == {12000}      \* track lengths (ms) reported by sox
ScenarioDuration == 100 * MS
Widths == {1, 30, 80}     \* terminal widths reported by getmaxyx
MaxVolumeKeys == 1        \* volume keypresses in a session of Spec
MaxVolumeKeysLong == 12   \* volume keypresses in a session of VolumeSpec

Keys == {"none", "q", "esc", "space", "r", "left", "right", "up", "down", "other"}
VolumeKeys == {"none", "q", "up", "down"}
ScenarioKeys == {"none", "q", "left"}

LoopPcs == {"busy", "pos", "key", "loop", "render"}

VARIABLES pc, start_offset, time_since_play, paused, loop, audio_length,
          mixer, loaded, work_dir, exit_status, key, calls, races, pause_mark,
          end_pending, volume_keys

vars == <<pc, start_offset, time_since_play, paused, loop, audio_length,
          mixer, loaded, work_dir, exit_status, key, calls, races, pause_mark,
          end_pending, volume_keys>>

\* pc           the statement main is at ("exited": the process has ended)
\* start_offset, time_since_play, paused, loop, audio_length, key
\*              the locals of main of the same names
\* loaded       a music file is loaded in the mixer (pgm.load .. pgm.unload)
\* work_dir     the TemporaryDirectory exists
\* exit_status  "running", "ok" (main returned), "error" (SystemExit with a
\*              message) or "crash" (another exception left main)
\* calls        the mixer calls issued by the last statement of main
\* races        track ends that fell between get_busy and get_pos so far
\* pause_mark   start_offset + time_since_play read by the pause that is
\*              waiting for its resume (no seek or restart since), or NoMark
\* end_pending  the track ended on its own while looping and unpaused, and
\*              no loop check has run since
\* volume_keys  volume keypresses handled so far
session == <<start_offset, time_since_play, paused>>
ghosts == <<races, pause_mark, end_pending, volume_keys>>
logicalPosition == start_offset + time_since_play

Min(a, b) == IF a < b THEN a ELSE b
Max(a, b) == IF a > b THEN a ELSE b

\* pause_mark when no pause from Playing is waiting for its resume
NoMark == 0 - 1000 * MS

\* ---------------------------------------------------------------- the mixer
\* mixer.busy   pgm.get_busy()
\* mixer.start  the start= of the last pgm.play
\* mixer.pos    pgm.get_pos(): ms since the last play, -1 when no music plays
\* mixer.volume the mixer's integer volume, 0..128
\* mixer.last   the last transport call made on the mixer: play, stop or none
\* pgm.play(start=...): the music is playing, its clock restarts at 0.
Play(m, start) == [m EXCEPT !.busy = TRUE, !.start = start, !.pos = 0, !.last = "play"]

\* pgm.stop(): the music is halted; get_pos() reads -1 from then on.
Stop(m) == [m EXCEPT !.busy = FALSE, !.pos = -1, !.last = "stop"]

\* pgm.get_volume(), in units of 1/1280.
GetVolume(m) == m.volume * (VOLUME_UNIT \div MIX_MAX_VOLUME)

SetVolume_Stops(m, x) ==
    [m EXCEPT !.volume = (x * MIX_MAX_VOLUME) \div VOLUME_UNIT, !.busy = FALSE]

\* pgm.set_volume(x), x in units of 1/1280: the mixer keeps int(x * 128).
SetVolume(m, x) == [m EXCEPT !.volume = (x * MIX_MAX_VOLUME) \div VOLUME_UNIT]

\* ---------------------------------------------------------------- handlers
\* pgm.stop(); if not paused: pgm.play(start=start_offset)
StopAndResume_FromZero(m, p, start) == IF p THEN Stop(m) ELSE Play(Stop(m), 0)

StopAndResume_AlwaysPlays(m, p, start) == Play(Stop(m), start)

StopAndResume_NeverPlays(m, p, start) == Stop(m)

StopAndResume(m, p, start) == IF p THEN Stop(m) ELSE Play(Stop(m), start)

StopAndResumeCalls_AlwaysPlays(p, start) == <<<<"stop">>, <<"play", start>>>>

\* the mixer calls issued by StopAndResume, in order
StopAndResumeCalls(p, start) ==
    IF p THEN <<<<"stop">>>> ELSE <<<<"stop">>, <<"play", start>>>>

PauseOffset_NoFold(so, tsp, len) == Min(so, len)

PauseOffset(so, tsp, len) == Min(so + tsp, len)

SeekBackwardOffset_NoFold(so, tsp) == Max(0, so - SEEK_DISTANCE_SECONDS * MS)

SeekBackwardOffset_NoFloor(so, tsp) == so + tsp - SEEK_DISTANCE_SECONDS * MS

SeekBackwardOffset(so, tsp) == Max(0, so + tsp - SEEK_DISTANCE_SECONDS * MS)

SeekForwardOffset_NoClamp(so, tsp, len) == so + tsp + SEEK_DISTANCE_SECONDS * MS

SeekForwardOffset(so, tsp, len) == Min(so + tsp + SEEK_DISTANCE_SECONDS * MS, len)

VolumeUpValue_NoClamp(m) == GetVolume(m) + (VOLUME_INCREMENT * VOLUME_UNIT) \div 100

VolumeUpValue(m) == Min(GetVolume(m) + (VOLUME_INCREMENT * VOLUME_UNIT) \div 100, VOLUME_UNIT)

VolumeDownValue(m) == Max(0, GetVolume(m) - (VOLUME_INCREMENT * VOLUME_UNIT) \div 100)

Init ==
    /\ pc = "acquire"
    /\ start_offset = 0
    /\ time_since_play = 0
    /\ paused = FALSE
    /\ loop \in BOOLEAN
    /\ audio_length = 0
    /\ mixer = [busy |-> FALSE, start |-> 0, pos |-> -1, volume |-> MIX_MAX_VOLUME, last |-> "none"]
    /\ loaded = FALSE
    /\ work_dir = TRUE
    /\ exit_status = "running"
    /\ key = "none"
    /\ calls = <<>>
    /\ races = 0
    /\ pause_mark = NoMark
    /\ end_pending = FALSE
    /\ volume_keys = 0

\* ---------------------------------------------------------------- start-up
\* file_or_url starts with "http": ydl.download, then the optional copy.
Download ==
    /\ pc = "acquire"
    /\ \E ok \in BOOLEAN, save \in BOOLEAN :
         IF ok
         THEN /\ pc' = IF save THEN "save" ELSE "transform"
              /\ UNCHANGED <<work_dir, exit_status>>
         ELSE /\ pc' = "exited"
              /\ work_dir' = FALSE
              /\ exit_status' = "error"
    /\ UNCHANGED <<session, loop, audio_length, mixer, loaded, calls, key, ghosts>>

\* shutil.copy of the downloaded file; OSError is swallowed.
SaveCopy ==
    /\ pc = "save"
    /\ \E ok \in BOOLEAN : pc' = "transform"
    /\ UNCHANGED <<session, loop, audio_length, mixer, loaded, work_dir,
                   exit_status, calls, key, ghosts>>

FileCheck_NoExit ==
    /\ pc = "acquire"
    /\ \E exists \in BOOLEAN :
         /\ pc' = "transform"
         /\ exit_status' = IF exists THEN exit_status ELSE "error"
         /\ UNCHANGED work_dir
    /\ UNCHANGED <<session, loop, audio_length, mixer, loaded, key, calls, ghosts>>

\* local path: source_file.exists()
FileCheck ==
    /\ pc = "acquire"
    /\ \E exists \in BOOLEAN :
         IF exists
         THEN /\ pc' = "transform"
              /\ UNCHANGED <<work_dir, exit_status>>
         ELSE /\ pc' = "exited"
              /\ work_dir' = FALSE
              /\ exit_status' = "error"
    /\ UNCHANGED <<session, loop, audio_length, mixer, loaded, calls, key, ghosts>>

\* sox builds the playback file and reports its duration.
Transform(len) ==
    /\ pc = "transform"
    /\ audio_length' = len
    /\ pc' = "load"
    /\ UNCHANGED <<session, loop, mixer, loaded, work_dir, exit_status, calls, key, ghosts>>

\* pygame.mixer.init(); pgm.load(playback_file)
Load ==
    /\ pc = "load"
    /\ loaded' = TRUE
    /\ pc' = "play"
    /\ UNCHANGED <<session, loop, audio_length, mixer, work_dir, exit_status, calls, key, ghosts>>

\* time_since_play = start_offset = 0; paused = False; pgm.play(start=start_offset)
FirstPlay ==
    /\ pc = "play"
    /\ start_offset' = 0
    /\ time_since_play' = 0
    /\ paused' = FALSE
    /\ mixer' = Play(mixer, 0)
    /\ calls' = <<<<"play", 0>>>>
    /\ pc' = "busy"
    /\ UNCHANGED <<loop, audio_length, loaded, work_dir, exit_status, key, ghosts>>

\* ---------------------------------------------------------------- the loop
GetBusy_SkipsKeys ==
    /\ pc = "busy"
    /\ pc' = IF mixer.busy THEN "pos" ELSE "loop"
    /\ calls' = <<>>
    /\ UNCHANGED <<session, loop, audio_length, mixer, loaded, work_dir, exit_status, key, ghosts>>

\* if pgm.get_busy():
GetBusy ==
    /\ pc = "busy"
    /\ pc' = IF mixer.busy THEN "pos" ELSE "key"
    /\ calls' = <<>>
    /\ UNCHANGED <<session, loop, audio_length, mixer, loaded, work_dir, exit_status, key, ghosts>>

GetPos_Accumulates ==
    /\ pc = "pos"
    /\ time_since_play' = time_since_play + mixer.pos
    /\ pc' = "key"
    /\ calls' = <<>>
    /\ UNCHANGED <<start_offset, paused, loop, audio_length, mixer, loaded, work_dir,
                   exit_status, key, ghosts>>

\* time_since_play = pgm.get_pos() / 1000
GetPos ==
    /\ pc = "pos"
    /\ time_since_play' = mixer.pos
    /\ pc' = "key"
    /\ calls' = <<>>
    /\ UNCHANGED <<start_offset, paused, loop, audio_length, mixer, loaded, work_dir,
                   exit_status, key, ghosts>>

\* key = stdscr.getch() and the if/elif chain on it
KeyPress(k, cap) ==
    /\ pc = "key"
    /\ key' = k
    /\ k \in {"up", "down"} => volume_keys < cap
    /\ volume_keys' = IF k \in {"up", "down"} THEN volume_keys + 1 ELSE volume_keys
    /\ CASE k \in {"q", "esc"} ->
              /\ pc' = "unload"
              /\ calls' = <<>>
              /\ UNCHANGED <<session, mixer, pause_mark>>
         [] k = "space" /\ paused ->
              /\ mixer' = Play(mixer, start_offset)
              /\ calls' = <<<<"play", start_offset>>>>
              /\ paused' = FALSE
              /\ pause_mark' = NoMark
              /\ pc' = "loop"
              /\ UNCHANGED <<start_offset, time_since_play>>
         [] k = "space" /\ ~paused ->
              /\ start_offset' = PauseOffset(start_offset, time_since_play, audio_length)
              /\ time_since_play' = 0
              /\ mixer' = Stop(mixer)
              /\ calls' = <<<<"stop">>>>
              /\ paused' = TRUE
              /\ pause_mark' = start_offset + time_since_play
              /\ pc' = "loop"
         [] k = "r" ->
              /\ time_since_play' = 0
              /\ start_offset' = 0
              /\ mixer' = StopAndResume(mixer, paused, 0)
              /\ calls' = StopAndResumeCalls(paused, 0)
              /\ pause_mark' = NoMark
              /\ pc' = "loop"
              /\ UNCHANGED paused
         [] k = "left" ->
              /\ start_offset' = SeekBackwardOffset(start_offset, time_since_play)
              /\ time_since_play' = 0
              /\ mixer' = StopAndResume(mixer, paused, start_offset')
              /\ calls' = StopAndResumeCalls(paused, start_offset')
              /\ pause_mark' = NoMark
              /\ pc' = "loop"
              /\ UNCHANGED paused
         [] k = "right" ->
              /\ start_offset' = SeekForwardOffset(start_offset, time_since_play, audio_length)
              /\ time_since_play' = 0
              /\ mixer' = StopAndResume(mixer, paused, start_offset')
              /\ calls' = StopAndResumeCalls(paused, start_offset')
              /\ pause_mark' = NoMark
              /\ pc' = "loop"
              /\ UNCHANGED paused
         [] k = "up" ->
              /\ mixer' = SetVolume(mixer, VolumeUpValue(mixer))
              /\ calls' = <<<<"set_volume", VolumeUpValue(mixer)>>>>
              /\ pc' = "loop"
              /\ UNCHANGED <<session, pause_mark>>
         [] k = "down" ->
              /\ mixer' = SetVolume(mixer, VolumeDownValue(mixer))
              /\ calls' = <<<<"set_volume", VolumeDownValue(mixer)>>>>
              /\ pc' = "loop"
              /\ UNCHANGED <<session, pause_mark>>
         [] OTHER ->
              /\ pc' = "loop"
              /\ calls' = <<>>
              /\ UNCHANGED <<session, mixer, pause_mark>>
    /\ UNCHANGED <<loop, audio_length, loaded, work_dir, exit_status, races, end_pending>>

LoopCheck_IgnoresPause ==
    /\ pc = "loop"
    /\ IF loop /\ ~mixer.busy
       THEN /\ time_since_play' = 0
            /\ start_offset' = 0
            /\ mixer' = Play(mixer, 0)
            /\ calls' = <<<<"play", 0>>>>
       ELSE /\ calls' = <<>>
            /\ UNCHANGED <<start_offset, time_since_play, mixer>>
    /\ end_pending' = FALSE
    /\ pc' = "render"
    /\ UNCHANGED <<paused, loop, audio_length, loaded, work_dir, exit_status, key,
                   races, pause_mark, volume_keys>>

LoopCheck_NoReset ==
    /\ pc = "loop"
    /\ IF loop /\ ~paused /\ ~mixer.busy
       THEN /\ mixer' = Play(mixer, 0)
            /\ calls' = <<<<"play", 0>>>>
       ELSE /\ calls' = <<>>
            /\ UNCHANGED mixer
    /\ end_pending' = FALSE
    /\ pc' = "render"
    /\ UNCHANGED <<session, loop, audio_length, loaded, work_dir, exit_status, key,
                   races, pause_mark, volume_keys>>

\* if loop and not paused and not pgm.get_busy(): restart from 0
LoopCheck ==
    /\ pc = "loop"
    /\ IF loop /\ ~paused /\ ~mixer.busy
       THEN /\ time_since_play' = 0
            /\ start_offset' = 0
            /\ mixer' = Play(mixer, 0)
            /\ calls' = <<<<"play", 0>>>>
       ELSE /\ calls' = <<>>
            /\ UNCHANGED <<start_offset, time_since_play, mixer>>
    /\ end_pending' = FALSE
    /\ pc' = "render"
    /\ UNCHANGED <<paused, loop, audio_length, loaded, work_dir, exit_status, key,
                   races, pause_mark, volume_keys>>

\* max_bars = min(max_width - 2, PROGRESS_BAR_WIDTH), max_width = width - 2
MaxBars(width) == Min(width - 4, PROGRESS_BAR_WIDTH)

\* Python's round() of the rational n/d (d > 0): nearest integer, ties to even.
RoundHalfEven(n, d) ==
    LET q == (2 * n + d) \div (2 * d)
    IN  IF (2 * n + d) % (2 * d) = 0 /\ q % 2 = 1 THEN q - 1 ELSE q

\* n_bars = round(min(t / audio_length, 1) * max_bars)
NBars(t, len, width) ==
    IF t >= len THEN MaxBars(width) ELSE RoundHalfEven(t * MaxBars(width), len)

\* len("[" + "=" * n_bars + " " * (max_bars - n_bars) + "]")
ProgressBarLen(t, len, width) ==
    2 + Max(NBars(t, len, width), 0) + Max(MaxBars(width) - NBars(t, len, width), 0)

\* column of the progress bar; addstr raises curses.error for a negative column
ProgressBarX(t, len, width) == (width - ProgressBarLen(t, len, width)) \div 2

\* t = start_offset + time_since_play ... stdscr.refresh(); curses.napms(10)
\* (key is not read again before the next getch: it is forgotten here)
Render ==
    /\ pc = "render"
    /\ \E width \in Widths :
         IF ProgressBarX(start_offset + time_since_play, audio_length, width) < 0
         THEN /\ pc' = "exited"
              /\ work_dir' = FALSE
              /\ exit_status' = "crash"
         ELSE /\ pc' = "busy"
              /\ UNCHANGED <<work_dir, exit_status>>
    /\ key' = "none"
    /\ calls' = <<>>
    /\ UNCHANGED <<session, loop, audio_length, mixer, loaded, ghosts>>

\* except KeyboardInterrupt: break
Interrupt ==
    /\ pc \in LoopPcs
    /\ pc' = "unload"
    /\ calls' = <<>>
    /\ UNCHANGED <<session, loop, audio_length, mixer, loaded, work_dir, exit_status, key, ghosts>>

\* pgm.unload(), then the TemporaryDirectory block ends
Unload ==
    /\ pc = "unload"
    /\ loaded' = FALSE
    /\ mixer' = [mixer EXCEPT !.busy = FALSE, !.pos = -1]
    /\ work_dir' = FALSE
    /\ exit_status' = "ok"
    /\ pc' = "exited"
    /\ calls' = <<<<"unload">>>>
    /\ UNCHANGED <<session, loop, audio_length, key, ghosts>>

\* -------------------------------------------------- the mixer's own thread
\* The mixer plays on its own thread, so its steps interleave with every
\* statement of the loop, in particular between get_busy() and get_pos().
\*
\* The mixer clock moves on while the music plays: by a quantum, to the end
\* of the track, or slightly past it before the end is registered (get_pos
\* is a wall-clock reading and audio_length comes from sox; play.py itself
\* clamps start_offset + time_since_play to audio_length at lines 130-132
\* and 189).
MusicAdvance ==
    /\ pc \in LoopPcs
    /\ mixer.busy
    /\ mixer.start + mixer.pos < audio_length
    /\ \E p \in {mixer.pos + Quantum, audio_length - mixer.start,
                 audio_length - mixer.start + MaxOvershoot} :
         /\ p > mixer.pos
         /\ mixer.start + p <= audio_length + MaxOvershoot
         /\ mixer' = [mixer EXCEPT !.pos = p]
    /\ UNCHANGED <<pc, session, loop, audio_length, loaded, work_dir, exit_status,
                   calls, key, ghosts>>

\* The track runs out: the music is no longer busy and get_pos() reads -1.
MusicEnd ==
    /\ pc \in LoopPcs
    /\ mixer.busy
    /\ mixer.start + mixer.pos >= audio_length
    /\ pc = "pos" => races < MaxRaces
    /\ races' = IF pc = "pos" THEN races + 1 ELSE races
    /\ mixer' = [mixer EXCEPT !.busy = FALSE, !.pos = -1]
    /\ end_pending' = (loop /\ ~paused)
    /\ UNCHANGED <<pc, session, loop, audio_length, loaded, work_dir, exit_status,
                   key, calls, pause_mark, volume_keys>>

Step(keys, cap) ==
    \/ Download \/ SaveCopy \/ FileCheck \/ Load \/ FirstPlay
    \/ GetBusy \/ GetPos
    \/ \E k \in keys : KeyPress(k, cap)
    \/ LoopCheck \/ Render \/ Interrupt \/ Unload
    \/ MusicAdvance \/ MusicEnd

Next == (\E len \in Durations : Transform(len)) \/ Step(Keys, MaxVolumeKeys)

Spec == Init /\ [][Next]_vars

\* a session in which only the volume keys (and quit) are pressed
VolumeNext == (\E len \in Durations : Transform(len)) \/ Step(VolumeKeys, MaxVolumeKeysLong)

VolumeSpec == Init /\ [][VolumeNext]_vars

\* the session of the scenario: a 100 s track, backward seeks only
ScenarioNext == Transform(ScenarioDuration) \/ Step(ScenarioKeys, 0)

ScenarioSpec == Init /\ [][ScenarioNext]_vars

TypeOK ==
    /\ pc \in {"acquire", "save", "transform", "load", "play", "unload", "exited"} \cup LoopPcs
    /\ paused \in BOOLEAN
    /\ loaded \in BOOLEAN

\* ================================================================ claims

InLoop == pc \in LoopPcs

\* C1: in every reachable state 0 <= startOffset <= totalDuration, whatever
\* ticks and transport commands were interleaved.
C1_OffsetWithinTrack == 0 <= start_offset /\ start_offset <= audio_length

\* C2: whenever paused is true the mixer is stopped (its last transport call
\* was stop and it is not busy) and timeSincePlay = 0.
C2_PausedMeansStopped ==
    paused => (mixer.last = "stop" /\ ~mixer.busy /\ time_since_play = 0)

\* a seek or restart has been handled while paused
C2_Witness ==
    /\ paused /\ pc = "loop" /\ key \in {"left", "right", "r"}
    /\ calls = <<<<"stop">>>>

\* the step that resumes a pause taken from Playing with only ticks in between
ResumeStep ==
    /\ pc = "key" /\ paused /\ pause_mark # NoMark
    /\ key' = "space" /\ pc' = "loop"

\* C3 (as stated): pause then resume ends unpaused with logicalPosition equal
\* to its value at the first toggle, and play is issued at exactly that value.
C3_PauseResumeExact ==
    [][ResumeStep =>
         /\ ~paused'
         /\ start_offset' + time_since_play' = pause_mark
         /\ calls' = <<<<"play", pause_mark>>>>]_vars

\* C3 (amended): pause then resume ends unpaused with logicalPosition equal to
\* min(its value at the first toggle, totalDuration), and play is issued there.
C3_PauseResumeClamped ==
    [][ResumeStep =>
         /\ ~paused'
         /\ start_offset' + time_since_play' = Min(pause_mark, audio_length)
         /\ calls' = <<<<"play", Min(pause_mark, audio_length)>>>>
         /\ mixer'.busy /\ mixer'.start = Min(pause_mark, audio_length)]_vars

\* a resume has just been handled, at a position reached by playing
C3_Witness ==
    /\ pc = "loop" /\ key = "space" /\ ~paused
    /\ calls = <<<<"play", start_offset>>>>
    /\ start_offset = Quantum

\* C4: Restart leaves startOffset = timeSincePlay = 0, keeps paused, and
\* issues stop, followed by play(0) exactly when the session is not paused.
C4_Restart ==
    [][(pc = "key" /\ key' = "r" /\ pc' = "loop") =>
         /\ start_offset' = 0 /\ time_since_play' = 0
         /\ paused' = paused
         /\ calls' = (IF paused THEN <<<<"stop">>>> ELSE <<<<"stop">>, <<"play", 0>>>>)
         /\ mixer'.busy = ~paused
         /\ mixer'.last = (IF paused THEN "stop" ELSE "play")
         /\ (~paused => mixer'.start = 0 /\ mixer'.pos = 0)]_vars

\* a restart was handled while playing, from a position other than 0
C4_Witness ==
    /\ pc = "loop" /\ key = "r" /\ ~paused
    /\ calls = <<<<"stop">>, <<"play", 0>>>>
    /\ logicalPosition = 0

\* a restart was handled while paused
C4_WitnessPaused == pc = "loop" /\ key = "r" /\ paused /\ logicalPosition = 0

\* the loop runs on: every statement of the loop body returns (getch is
\* non-blocking, napms is a bounded sleep); keys and interrupts may never come
FairSpec ==
    /\ Spec
    /\ WF_vars(GetBusy) /\ WF_vars(GetPos)
    /\ WF_vars(\E k \in Keys : KeyPress(k, MaxVolumeKeys))
    /\ WF_vars(LoopCheck) /\ WF_vars(Render)

\* the loop check of a tick, reached after the track ended on its own while
\* looping and unpaused
LoopCheckAfterEnd == pc = "loop" /\ pc' = "render" /\ end_pending

LoopRestarted ==
    /\ start_offset' = 0 /\ time_since_play' = 0
    /\ calls' = <<<<"play", 0>>>>
    /\ mixer'.busy /\ mixer'.start = 0 /\ mixer'.pos = 0

\* C5 (as stated): once the track has ended on its own while looping and
\* unpaused, the next loop check leaves logicalPosition at 0 and the music
\* playing again from 0.
C5_LoopWrapAlways ==
    [][LoopCheckAfterEnd =>
         /\ start_offset' = 0 /\ time_since_play' = 0
         /\ mixer'.busy /\ mixer'.start = 0]_vars

\* C5 (amended): the next loop check does so provided the session is still
\* unpaused and the mixer still not busy when it runs (no pause, restart or
\* seek key was handled in between); and while looping, an ended track is
\* eventually playing again unless the session gets paused or the loop exits.
C5_LoopWrap ==
    /\ [][(LoopCheckAfterEnd /\ ~paused /\ ~mixer.busy) => LoopRestarted]_vars
    /\ (InLoop /\ loop /\ ~paused /\ ~mixer.busy /\ end_pending)
          ~> (mixer.busy \/ paused \/ ~InLoop)

\* the loop check has just restarted a track that had ended on its own
C5_Witness ==
    /\ pc = "render" /\ loop /\ ~paused
    /\ calls = <<<<"play", 0>>>> /\ mixer.busy /\ logicalPosition = 0

SeekOffset(dir, so, tsp, len) ==
    IF dir = "right" THEN SeekForwardOffset(so, tsp, len) ELSE SeekBackwardOffset(so, tsp)

\* start_offset after a seek, then (no time elapsing) a pause
SeekThenPause(dir) ==
    PauseOffset(SeekOffset(dir, start_offset, time_since_play, audio_length), 0, audio_length)

\* start_offset after a pause, then a seek
PauseThenSeek(dir) ==
    SeekOffset(dir, PauseOffset(start_offset, time_since_play, audio_length), 0, audio_length)

\* C6 (as stated): from any Playing state, seek then pause commits the same
\* startOffset as pause then seek, for +5 and for -5.
C6_SeekPauseCommute ==
    (pc = "key" /\ ~paused) =>
        \A dir \in {"left", "right"} : SeekThenPause(dir) = PauseThenSeek(dir)

\* C6 (amended): they agree for +5 always, and for -5 whenever
\* logicalPosition <= totalDuration at the start.
C6_SeekPauseCommuteInTrack ==
    (pc = "key" /\ ~paused) =>
        /\ SeekThenPause("right") = PauseThenSeek("right")
        /\ logicalPosition <= audio_length => SeekThenPause("left") = PauseThenSeek("left")

\* a Playing state at key dispatch where both clamps of the two orders matter
C6_Witness ==
    /\ pc = "key" /\ ~paused /\ mixer.busy
    /\ start_offset > 0 /\ time_since_play > 0
    /\ logicalPosition + SEEK_DISTANCE_SECONDS * MS > audio_length
    /\ logicalPosition <= audio_length

VolumeStep == pc = "key" /\ pc' = "loop" /\ key' \in {"up", "down"}

\* C7: every value passed to set_volume lies in [0, 1]; volume-up raises the
\* volume until it is 1 and then keeps it, volume-down lowers it until it is 0
\* and then keeps it.
C7_VolumeBounds ==
    [][VolumeStep =>
         /\ Len(calls') = 1 /\ calls'[1][1] = "set_volume"
         /\ 0 <= calls'[1][2] /\ calls'[1][2] <= VOLUME_UNIT
         /\ 0 <= mixer'.volume /\ mixer'.volume <= MIX_MAX_VOLUME
         /\ key' = "up" =>
              IF mixer.volume = MIX_MAX_VOLUME THEN mixer'.volume = MIX_MAX_VOLUME
              ELSE mixer'.volume > mixer.volume
         /\ key' = "down" =>
              IF mixer.volume = 0 THEN mixer'.volume = 0
              ELSE mixer'.volume < mixer.volume]_vars

\* volume-down was pressed until the volume was 0, and once more
C7_Witness ==
    /\ pc = "loop" /\ key = "down" /\ mixer.volume = 0
    /\ calls = <<<<"set_volume", 0>>>> /\ volume_keys >= 11

\* volume-up was pressed at full volume
C7_WitnessUp ==
    /\ pc = "loop" /\ key = "up" /\ mixer.volume = MIX_MAX_VOLUME
    /\ calls = <<<<"set_volume", VOLUME_UNIT>>>>

\* C8: with a 100 s track, from startOffset = 0: a refresh reading 30 s gives
\* logicalPosition 30; a backward seek then gives startOffset 25,
\* timeSincePlay 0; a later refresh reading 10 s gives logicalPosition 35.
C8_Scenario ==
    [][/\ (pc = "pos" /\ pc' = "key" /\ start_offset = 0 /\ ~paused /\ mixer.pos = 30 * MS)
            => start_offset' + time_since_play' = 30 * MS
       /\ (pc = "key" /\ pc' = "loop" /\ key' = "left" /\ ~paused
             /\ start_offset = 0 /\ time_since_play = 30 * MS)
            => (start_offset' = 25 * MS /\ time_since_play' = 0
                 /\ calls' = <<<<"stop">>, <<"play", 25 * MS>>>>)
       /\ (pc = "pos" /\ pc' = "key" /\ start_offset = 25 * MS /\ ~paused /\ mixer.pos = 10 * MS)
            => start_offset' + time_since_play' = 35 * MS]_vars

\* the end of the scenario: playing from 25 s, 10 s read at the last refresh
C8_Witness ==
    /\ audio_length = 100 * MS /\ pc = "key" /\ ~paused /\ mixer.busy
    /\ start_offset = 25 * MS /\ time_since_play = 10 * MS /\ mixer.start = 25 * MS

\* C9: however the loop is left (quit key, interrupt, any other failure), it
\* is left without a crash, the music is unloaded and the working directory
\* is removed.
C9_LoopExitReleases ==
    (pc = "exited" /\ exit_status # "error") =>
        (exit_status = "ok" /\ ~loaded /\ ~work_dir)

C11_AtMostOneCall == InLoop => Len(calls) <= 1

\* C11 (amended): a statement issues at most two mixer calls, and two only as
\* stop followed by play, by the restart and seek handlers while not paused.
C11_AtMostStopThenPlay ==
    InLoop =>
        /\ Len(calls) <= 2
        /\ Len(calls) = 2 =>
             /\ calls = <<<<"stop">>, <<"play", start_offset>>>>
             /\ pc = "loop" /\ key \in {"r", "left", "right"} /\ ~paused
        /\ (pc = "loop" /\ key \in {"r", "left", "right"} /\ ~paused) => Len(calls) = 2

\* a seek was handled while playing: stop, then play
C11_Witness ==
    /\ pc = "loop" /\ key = "right" /\ ~paused
    /\ calls = <<<<"stop">>, <<"play", start_offset>>>>

Clamp(x, lo, hi) == Max(lo, Min(x, hi))

SeekStep == pc = "key" /\ pc' = "loop" /\ key' \in {"left", "right"}

SeekTarget ==
    Clamp(start_offset + time_since_play
            + (IF key' = "right" THEN 1 ELSE -1) * SEEK_DISTANCE_SECONDS * MS,
          0, audio_length)

C12_WitnessForward ==
    /\ pc = "loop" /\ key = "right" /\ paused /\ start_offset = audio_length
    /\ calls = <<<<"stop">>>>

\* C13: the refresh sets timeSincePlay to the value read from the mixer when
\* the mixer reports busy and leaves it unchanged when it does not; it never
\* changes startOffset or paused and issues no mixer call.
C13_TickRefresh ==
    [][/\ (pc = "busy" /\ pc' \in {"pos", "key"}) =>
            /\ (pc' = "pos") = mixer.busy
            /\ UNCHANGED <<start_offset, time_since_play, paused, mixer>>
            /\ calls' = <<>>
       /\ (pc = "pos" /\ pc' = "key") =>
            /\ time_since_play' = mixer.pos
            /\ UNCHANGED <<start_offset, paused, mixer>>
            /\ calls' = <<>>]_vars

\* after a natural end of track the last value read stays in timeSincePlay
C13_Witness ==
    /\ pc = "key" /\ ~paused /\ ~mixer.busy /\ mixer.last = "play"
    /\ time_since_play = audio_length /\ start_offset = 0

\* C14: timeSincePlay >= 0 in every reachable state, also when the track
\* ends between the busy query and the elapsed query of one refresh.
C14_ElapsedNonNegative == time_since_play >= 0

\* the loop runs on and the mixer thread does end a track that has run out
EndFairSpec == FairSpec /\ SF_vars(MusicEnd)

\* unpaused at the very end of the track (after a forward seek that was
\* clamped, or a resume there)
AtTrackEnd == InLoop /\ ~paused /\ start_offset = audio_length

\* C15: a seek never changes paused; unpaused with startOffset at
\* totalDuration, the session idles with logicalPosition at totalDuration
\* until a command when loop is disabled, and is restarted from 0 by the loop
\* check when loop is enabled (unless a command or the exit comes first).
C15_SeekPastEndIdles ==
    /\ [][SeekStep => paused' = paused]_vars
    /\ []((AtTrackEnd /\ ~loop) => logicalPosition = audio_length)
    /\ [][(AtTrackEnd /\ ~loop /\ <<start_offset, paused>>' # <<start_offset, paused>>)
            => (pc = "key" /\ key' \in {"space", "r", "left", "right"})]_vars
    /\ (AtTrackEnd /\ loop) ~>
          \/ (pc = "render" /\ start_offset = 0 /\ calls = <<<<"play", 0>>>>)
          \/ (pc = "loop" /\ key \in {"space", "r", "left", "right"})
          \/ ~InLoop

LoopCheckFires == loop /\ ~paused /\ ~mixer.busy

\* C16: the loop check restarts from 0 exactly when loop is enabled, the
\* session is not paused and the mixer is not busy; with loop disabled, or
\* while paused, no statement other than a key handler changes startOffset or
\* issues play.
C16_LoopRestartGuard ==
    [][/\ (pc = "loop" /\ pc' = "render") =>
            IF LoopCheckFires THEN LoopRestarted
            ELSE /\ UNCHANGED <<start_offset, time_since_play, paused, mixer>>
                 /\ calls' = <<>>
       /\ (InLoop /\ pc # "key" /\ (~loop \/ paused)) =>
            /\ start_offset' = start_offset
            /\ mixer'.last = mixer.last /\ mixer'.start = mixer.start
            /\ ~mixer.busy => ~mixer'.busy
            /\ calls' = calls \/ calls' = <<>>]_vars

\* a loop check has run with loop enabled, the mixer idle and the session
\* paused: nothing was restarted
C16_Witness ==
    /\ pc = "render" /\ loop /\ paused /\ ~mixer.busy
    /\ calls = <<>> /\ start_offset > 0 /\ mixer.last = "stop"

\* a loop check has run with loop disabled after the track ended
C16_WitnessNoLoop ==
    /\ pc = "render" /\ ~loop /\ ~paused /\ ~mixer.busy
    /\ calls = <<>> /\ mixer.last = "play" /\ logicalPosition = audio_length

\* the statements that may follow each statement of the loop body
LoopOrder ==
    [busy |-> {"pos", "key"}, pos |-> {"key"}, key |-> {"loop", "unload"},
     loop |-> {"render"}, render |-> {"busy", "exited"}]

\* C17: within a tick the order is refresh, dispatch of at most one key, loop
\* check on the state the key handler left, redraw; a pause key handled in
\* the tick in which the track ended suppresses that tick's loop restart, and
\* a quit key leaves the loop before any loop restart or redraw.
C17_TickOrder ==
    [][/\ (InLoop /\ pc' # pc) => (pc' \in LoopOrder[pc] \/ pc' = "unload")
       /\ (pc = "key" /\ pc' = "loop" /\ key' \in {"none", "other"}) =>
            UNCHANGED <<start_offset, time_since_play, paused, mixer>>
       /\ (pc = "loop" /\ pc' = "render" /\ key = "space" /\ paused) =>
            /\ calls' = <<>> /\ ~mixer'.busy /\ mixer'.last = "stop"
            /\ UNCHANGED <<start_offset, time_since_play, paused>>
       /\ (pc = "key" /\ key' \in {"q", "esc"}) =>
            /\ pc' = "unload" /\ calls' = <<>>
            /\ UNCHANGED <<start_offset, time_since_play, paused, mixer>>
       /\ (pc = "unload" /\ pc' # pc) =>
            /\ pc' = "exited" /\ calls' = <<<<"unload">>>>
            /\ ~mixer'.busy /\ mixer'.last = mixer.last]_vars

\* the track ended while looping, and the pause key was handled in that tick,
\* before its loop check
C17_Witness ==
    /\ pc = "loop" /\ loop /\ end_pending /\ key = "space" /\ paused
    /\ ~mixer.busy /\ calls = <<<<"stop">>>>


\* progress = min(t / audio_length, 1), as the number of milliseconds it
\* stands for: progress = Progress(t, len) / len
Progress(t, len) == Min(t, len)

\* C18: at every render the progress value lies in [0, 1] and the number of
\* filled cells lies between 0 and the bar width, whatever the terminal width.
C18_ProgressInUnitInterval ==
    pc = "render" =>
        \A width \in Widths :
            /\ 0 <= Progress(logicalPosition, audio_length)
            /\ Progress(logicalPosition, audio_length) <= audio_length
            /\ 0 <= NBars(logicalPosition, audio_length, width)
            /\ NBars(logicalPosition, audio_length, width) <= MaxBars(width)


UnmatchedStep == pc = "key" /\ pc' = "loop" /\ key' = "other"

\* C19: a volume key changes only the mixer's volume: startOffset,
\* timeSincePlay and paused are kept, and neither play nor stop is issued,
\* whether the session is playing, paused or idle after the end; a key that
\* matches no command changes no state and issues no mixer call.
C19_VolumeIsolated ==
    [][/\ VolumeStep =>
            /\ UNCHANGED <<start_offset, time_since_play, paused, loop>>
            /\ mixer' = [mixer EXCEPT !.volume = mixer'.volume]
            /\ Len(calls') = 1 /\ calls'[1][1] = "set_volume"
       /\ UnmatchedStep =>
            /\ UNCHANGED <<start_offset, time_since_play, paused, loop, mixer>>
            /\ calls' = <<>>]_vars

\* a volume key was handled while the session idles after the track's end
C19_Witness ==
    /\ pc = "loop" /\ key \in {"up", "down"} /\ ~paused /\ ~mixer.busy
    /\ mixer.last = "play" /\ logicalPosition = audio_length
    /\ mixer.volume < MIX_MAX_VOLUME

\* a volume key was handled while paused, and one while playing
C19_WitnessPaused ==
    pc = "loop" /\ key = "down" /\ paused /\ start_offset > 0 /\ mixer.volume < MIX_MAX_VOLUME

C19_WitnessPlaying ==
    pc = "loop" /\ key = "down" /\ ~paused /\ mixer.busy /\ time_since_play > 0

\* an unmatched key was handled while playing
C19_WitnessUnmatched ==
    pc = "loop" /\ key = "other" /\ ~paused /\ mixer.busy /\ time_since_play > 0


\* C20: every play call is issued with start = startOffset while
\* timeSincePlay = 0; hence whenever the mixer is playing, the offset it was
\* last started from is startOffset, timeSincePlay is a reading of its clock
\* no later than now, and each refresh makes logicalPosition the last play's
\* start offset plus the mixer's elapsed time.
C20_PlayMatchesSession ==
    /\ [](InLoop =>
            /\ \A i \in 1..Len(calls) :
                 calls[i][1] = "play" =>
                    /\ calls[i][2] = start_offset /\ time_since_play = 0
                    /\ mixer.last = "play" /\ mixer.start = start_offset
            /\ mixer.busy =>
                 /\ mixer.start = start_offset
                 /\ 0 <= time_since_play /\ time_since_play <= mixer.pos)
    /\ [][(pc = "pos" /\ pc' = "key" /\ mixer.busy) =>
            logicalPosition' = mixer.start + mixer.pos]_vars

\* playing from a seek target, refreshed after the mixer clock moved on
C20_Witness ==
    /\ pc = "key" /\ mixer.busy /\ ~paused
    /\ start_offset > 0 /\ time_since_play > 0
    /\ logicalPosition = mixer.start + mixer.pos

====
